---------------------------- MODULE Spec2Model ----------------------------
(***************************************************************************)
(* Model of src/ancomP/stats/permutation.py: the permutation-matrix        *)
(* builders (_init_perms, _init_categorical_perms, _init_reciprocal_perms),*)
(* the vectorized engines (mean difference, Welch t, one-way F) and the    *)
(* naive reference engines.                                                *)
(*                                                                         *)
(* One behaviour is one call.  Init binds the arguments, every other       *)
(* action is one step of the called function.  np.random.shuffle and       *)
(* np.random.permutation are nondeterministic choices among all            *)
(* rearrangements of the vector.                                           *)
(*                                                                         *)
(* Arithmetic.  A float is an exact fraction [n, d] in lowest terms with   *)
(* d > 0, or one of the IEEE specials inf = [1,0], -inf = [-1,0],          *)
(* nan = [0,0]; numpy divides by zero without raising, and so do FDiv and  *)
(* the operators built on it.  Rounding is not modelled.  Division is the  *)
(* true division of Python 3.  Feature values are non-negative, so no      *)
(* negative zero arises.  The Welch statistic is carried as its square:    *)
(* sqrt is strictly increasing on [0, inf], hence every comparison of two  *)
(* statistics is the comparison of their squares.                          *)
(*                                                                         *)
(* Arrays are functions on 0..len-1 (the indices of the source).  A matrix *)
(* of features is a function from row index to row; the permutation matrix *)
(* perms is a function from column index to column.                        *)
(***************************************************************************)
EXTENDS Integers, FiniteSets, Sequences, TLC

\* Bound on the size of a call: the number of samples (the length of the
\* label vector) plus the permutation count is at most MaxSize.
MaxSize == 5
\* Category ids that label vectors are drawn from.
CategoryIds == {0, 1, 2}
\* Values a feature measurement is drawn from.
FeatureValues == {0, 1}
\* dtype of the label vector.
DTypes == {"int", "float"}

VARIABLES
    fn,            \* the function called
    mat,           \* caller's feature matrix (row -> sample -> value)
    cats,          \* caller's label vector
    dtype,         \* cats.dtype
    permutations,  \* the permutation count passed
    pc,            \* position in the call
    copy_cats,     \* builder's working copy of the labels
    perms,         \* permutation matrix under construction / built
    m,             \* builder loop index
    r,             \* naive engine: feature row index
    i,             \* naive engine: permutation loop index
    stat,          \* mean_stat / t_stat / f_stat, or test_stat and perm_stats
    test_stats,    \* returned statistics, one per feature
    pvalues,       \* returned p-values, one per feature
    outcome        \* "running", "returned", or the exception raised

vars == <<fn, mat, cats, dtype, permutations, pc, copy_cats, perms, m, r, i,
          stat, test_stats, pvalues, outcome>>

---------------------------------------------------------------------------
\* Floats as exact fractions with IEEE specials.

Abs(x) == IF x < 0 THEN -x ELSE x

Sgn(x) == IF x < 0 THEN -1 ELSE IF x > 0 THEN 1 ELSE 0

RECURSIVE Gcd(_, _)
Gcd(a, b) == IF b = 0 THEN a ELSE Gcd(b, a % b)

Q(n, d) ==
    IF d = 0 THEN [n |-> Sgn(n), d |-> 0]
    ELSE LET g == Gcd(Abs(n), Abs(d))
             s == IF d < 0 THEN -1 ELSE 1
         IN  [n |-> (s * n) \div g, d |-> (s * d) \div g]

FInt(k) == [n |-> k, d |-> 1]

Zero == FInt(0)

One == FInt(1)

Nan == [n |-> 0, d |-> 0]

IsNan(a) == a.d = 0 /\ a.n = 0

IsFinite(a) == a.d > 0

FNeg(a) == [n |-> -a.n, d |-> a.d]

FAbs(a) == [n |-> Abs(a.n), d |-> a.d]

FAdd(a, b) ==
    IF IsNan(a) \/ IsNan(b) THEN Nan
    ELSE IF a.d = 0 /\ b.d = 0 THEN (IF a.n = b.n THEN a ELSE Nan)
    ELSE IF a.d = 0 THEN a
    ELSE IF b.d = 0 THEN b
    ELSE Q(a.n * b.d + b.n * a.d, a.d * b.d)

FSub(a, b) == FAdd(a, FNeg(b))

FMul(a, b) ==
    IF IsNan(a) \/ IsNan(b) THEN Nan
    ELSE IF a.d = 0 \/ b.d = 0 THEN Q(Sgn(a.n) * Sgn(b.n), 0)
    ELSE Q(a.n * b.n, a.d * b.d)

FDiv(a, b) ==
    IF IsNan(a) \/ IsNan(b) THEN Nan
    ELSE IF a.d = 0 /\ b.d = 0 THEN Nan
    ELSE IF b.d = 0 THEN Zero
    ELSE IF a.d = 0 THEN Q(a.n * (IF b.n < 0 THEN -1 ELSE 1), 0)
    ELSE IF b.n = 0 THEN Q(Sgn(a.n), 0)
    ELSE Q(a.n * b.d, a.d * b.n)

\* a >= b as numpy compares floats: False whenever an operand is nan.
FGeq(a, b) ==
    IF IsNan(a) \/ IsNan(b) THEN FALSE
    ELSE IF a.d = 0 /\ b.d = 0 THEN a.n >= b.n
    ELSE a.n * b.d >= b.n * a.d

\* Cast of a finite float to an integer dtype: truncation toward zero.
Trunc(a) == FInt(Sgn(a.n) * (Abs(a.n) \div a.d))

RECURSIVE SumF(_, _)
\* f[0] + ... + f[k-1]
SumF(f, k) == IF k = 0 THEN Zero ELSE FAdd(SumF(f, k - 1), f[k - 1])

RECURSIVE SumI(_, _)
SumI(f, k) == IF k = 0 THEN 0 ELSE SumI(f, k - 1) + f[k - 1]

Len0(v) == Cardinality(DOMAIN v)

Range(v) == {v[s] : s \in DOMAIN v}

\* len(np.unique(cats))
NumCats(v) == Cardinality(Range(v))

\* A fresh draw of labels with replacement instead of a rearrangement.
ShufflesWithReplacement(v) == [DOMAIN v -> Range(v)]

\* Every outcome of np.random.shuffle(v) / np.random.permutation(v).
Shuffles(v) == {[s \in DOMAIN v |-> v[p[s]]] : p \in Permutations(DOMAIN v)}

\* row . column of a matrix product, the column holding floats
DotF(row, col) ==
    SumF([s \in DOMAIN row |-> FMul(FInt(row[s]), col[s])], Len0(row))

\* row . column of a matrix product, the column holding integers
DotI(row, col) == SumI([s \in DOMAIN row |-> row[s] * col[s]], Len0(row))

\* x -> x*x elementwise (np.multiply(mat, mat)) on one row
Squares(row) == [s \in DOMAIN row |-> row[s] * row[s]]

\* perms.sum(axis=0)[j]
ColSum(col) == SumI(col, Len0(col))

\* np.zeros((c, ncols)), zero the 0 of its dtype
ZeroMatrix(c, ncols, zero) ==
    [j \in 0..(ncols - 1) |-> [s \in 0..(c - 1) |-> zero]]

Empty == [j \in {} |-> 0]

---------------------------------------------------------------------------
\* Inputs.

Vectors(n, S) == [0..(n - 1) -> S]

\* Labels are category ids in [0, K), K the number of distinct values, K >= 2.
ValidLabels(v) ==
    /\ Len0(v) > 0
    /\ NumCats(v) >= 2
    /\ Range(v) = 0..(NumCats(v) - 1)

NonDecreasing(v) == \A s, t \in DOMAIN v : s < t => v[s] <= v[t]

Builders == {"_init_perms", "_init_categorical_perms", "_init_reciprocal_perms"}

NpEngines == {"_np_mean_permutation_test", "_np_t_permutation_test",
              "_np_k_sample_f_statistic"}

NaiveEngines == {"_naive_mean_permutation_test", "_naive_t_permutation_test",
                 "_naive_f_permutation_test"}

BinaryOnly == {"_init_reciprocal_perms", "_np_mean_permutation_test",
               "_np_t_permutation_test", "_naive_mean_permutation_test",
               "_naive_t_permutation_test"}

\* The builder a call runs (the F statistic is handed the indicator matrix).
BuilderOf(f) ==
    CASE f \in {"_init_perms"} -> "_init_perms"
      [] f \in {"_init_categorical_perms", "_np_t_permutation_test",
                "_np_k_sample_f_statistic"} -> "_init_categorical_perms"
      [] f \in {"_init_reciprocal_perms", "_np_mean_permutation_test"}
            -> "_init_reciprocal_perms"

---------------------------------------------------------------------------
\* Permutation-matrix builders.

\* copy.deepcopy(cats): the working copy shares nothing with the caller's
\* array, so an in-place shuffle of the copy leaves the caller's array as is.
CallerArrayAfterShuffleAliased(callers, shuffled) == shuffled

CallerArrayAfterShuffle(callers, shuffled) == callers

\* Assignment of a float into an array of dtype dt.
Cast(x, dt) == IF dt = "int" THEN Trunc(x) ELSE x

\* perms[:, m] = copy_cats
PlainColumn(v) == v

\* (copy_cats == k + 1): category ids taken to start at 1
CategoricalColumnOneBased(v, k) ==
    [s \in DOMAIN v |-> IF v[s] = k + 1 THEN 1 ELSE 0]

\* (copy_cats == k).astype(cats.dtype)
CategoricalColumn(v, k) == [s \in DOMAIN v |-> IF v[s] = k THEN 1 ELSE 0]

\* copy_cats / float(copy_cats.sum()), stored with the dtype of perms
ReciprocalColumn(v, dt) ==
    LET tot == SumI(v, Len0(v))
    IN  [s \in DOMAIN v |-> Cast(FDiv(FInt(v[s]), FInt(tot)), dt)]

\* _samp_ones - copy_cats
Complement(v) == [s \in DOMAIN v |-> 1 - v[s]]

\* for i in range(num_cats): perms[:, num_cats*m+i] = (copy_cats == i)
WriteCategoricalBlock(p, blk, v, K) ==
    [j \in DOMAIN p |->
        IF K * blk <= j /\ j < K * blk + K
        THEN CategoricalColumn(v, j - K * blk) ELSE p[j]]

\* perms[:, 2*m] = ... ; perms[:, 2*m+1] = ...
WriteReciprocalBlock(p, blk, v, dt) ==
    [j \in DOMAIN p |->
        IF j = 2 * blk THEN ReciprocalColumn(v, dt)
        ELSE IF j = 2 * blk + 1 THEN ReciprocalColumn(Complement(v), dt)
        ELSE p[j]]

WritePlainBlock(p, blk, v) ==
    [j \in DOMAIN p |-> IF j = blk THEN PlainColumn(v) ELSE p[j]]

\* The block written by iteration blk of builder b.
BlockWrite(b, p, blk, v, dt) ==
    CASE b = "_init_perms" -> WritePlainBlock(p, blk, v)
      [] b = "_init_categorical_perms" ->
            WriteCategoricalBlock(p, blk, v, NumCats(v))
      [] b = "_init_reciprocal_perms" -> WriteReciprocalBlock(p, blk, v, dt)

\* The indicator and the plain matrix hold 0, 1 and labels, exact in every
\* dtype, and are kept as integers; the reciprocal matrix holds fractions.
ZeroOf(b) == IF b = "_init_reciprocal_perms" THEN Zero ELSE 0

\* Number of columns allocated by builder b.
AllocatedColumns(b, v, P) ==
    IF b = "_init_perms" THEN P + 1 ELSE NumCats(v) * (P + 1)

---------------------------------------------------------------------------
\* The call.

LabelVectors == UNION {Vectors(n, CategoryIds) : n \in 0..MaxSize}

BinaryLabelVectors == {v \in LabelVectors : ValidLabels(v) /\ NumCats(v) = 2}

\* One feature row per call; every engine treats the rows independently.
FeatureMatrices(c) == {[row \in {0} |-> x] : x \in Vectors(c, FeatureValues)}

\* The permutation counts a call with c samples is made with; -1 stands for
\* the negative counts.
PermutationCounts(c) == {P \in (-1)..MaxSize : c + P <= MaxSize}

InitBuilderCall ==
    \/ /\ fn \in {"_init_perms", "_init_categorical_perms"}
       /\ cats \in LabelVectors
       /\ dtype = "int"
    \/ /\ fn = "_init_reciprocal_perms"
       /\ cats \in BinaryLabelVectors
       /\ dtype \in DTypes

\* The statistics do not depend on the order of the samples, so an engine
\* is called with the labels in non-decreasing order and every feature row.
InitEngineCall ==
    /\ fn \in NpEngines \cup NaiveEngines
    /\ cats \in {v \in LabelVectors : ValidLabels(v) /\ NonDecreasing(v)}
    /\ fn \in BinaryOnly => NumCats(cats) = 2
    /\ dtype \in (IF fn = "_np_mean_permutation_test" THEN DTypes ELSE {"int"})

Init ==
    /\ \/ InitBuilderCall /\ mat = Empty
       \/ InitEngineCall /\ mat \in FeatureMatrices(Len0(cats))
    /\ permutations \in PermutationCounts(Len0(cats))
    /\ pc = "call"
    /\ copy_cats = Empty
    /\ perms = Empty
    /\ m = 0
    /\ r = 0
    /\ i = 0
    /\ stat = Empty
    /\ test_stats = Empty
    /\ pvalues = Empty
    /\ outcome = "running"

\* Where control goes when the builder returns perms.
AfterBuilder(p) ==
    IF fn \in Builders
    THEN /\ pc' = "done"
         /\ outcome' = "returned"
    ELSE /\ pc' = "built"
         /\ outcome' = outcome

\* Lines 21-24, 41-44, 65-69: the copy and the allocation.  With
\* permutations = -1 the matrix has no column and the loop does not run.
EnterBuilder ==
    /\ pc = "call"
    /\ fn \in Builders \cup NpEngines
    /\ perms' = ZeroMatrix(Len0(cats),
                           AllocatedColumns(BuilderOf(fn), cats, permutations),
                           ZeroOf(BuilderOf(fn)))
    /\ m' = 0
    /\ IF permutations + 1 > 0
       THEN /\ copy_cats' = cats
            /\ pc' = "build"
            /\ outcome' = outcome
       ELSE /\ copy_cats' = Empty
            /\ AfterBuilder(perms')
    /\ UNCHANGED <<fn, mat, cats, dtype, permutations, r, i, stat, test_stats,
                   pvalues>>

\* One iteration of the loop over m that is not the last: the block is
\* written from the working copy, then the working copy is shuffled in place.
BuildBlock ==
    /\ pc = "build"
    /\ m < permutations
    /\ perms' = BlockWrite(BuilderOf(fn), perms, m, copy_cats, dtype)
    /\ \E sh \in Shuffles(copy_cats) :
          /\ copy_cats' = sh
          /\ cats' = CallerArrayAfterShuffle(cats, sh)
    /\ m' = m + 1
    /\ UNCHANGED <<fn, mat, dtype, permutations, pc, r, i, stat, test_stats,
                   pvalues, outcome>>

\* The last iteration and the return: block P is written, the working copy
\* is shuffled once more and goes out of scope as perms is returned.
BuildLastBlock ==
    /\ pc = "build"
    /\ m = permutations
    /\ perms' = BlockWrite(BuilderOf(fn), perms, m, copy_cats, dtype)
    /\ \E sh \in Shuffles(copy_cats) :
          cats' = CallerArrayAfterShuffle(cats, sh)
    /\ copy_cats' = Empty
    /\ m' = m + 1
    /\ AfterBuilder(perms')
    /\ UNCHANGED <<fn, mat, dtype, permutations, r, i, stat, test_stats,
                   pvalues>>

---------------------------------------------------------------------------
\* The p-value shared by all engines.

\* cmps.sum() / (permutations + 1.): the numerator without its + 1
PValueUnsmoothed(count, P) == FDiv(FInt(count), FInt(P + 1))

\* (cmps.sum() + 1.) / (permutations + 1.)
PValue(count, P) == FDiv(FInt(count + 1), FInt(P + 1))

\* stat[1:] > stat[0]
ExceedsObservedStrictly(permuted, observed) ==
    FGeq(permuted, observed) /\ permuted # observed

\* stat[1:] >= stat[0], elementwise
ExceedsObserved(permuted, observed) == FGeq(permuted, observed)

\* The count taken over every block, the observed one included.
TailCountWithObserved(f) ==
    Cardinality({b \in DOMAIN f : ExceedsObserved(f[b], f[0])})

\* cmps.sum(): the permuted blocks whose statistic reaches the observed one
TailCount(f) ==
    Cardinality({b \in DOMAIN f \ {0} : ExceedsObserved(f[b], f[0])})

\* permutations = (c - num_cats) // num_cats, from the shape of perms
PermutationsOf(p, K) == (Len0(p) - K) \div K

---------------------------------------------------------------------------
\* Vectorized statistics of one feature row against perms.

\* mean_stat = abs(avgs[:, idx+1] - avgs[:, idx]), avgs = mat * perms
MeanStatRow(row, p) ==
    LET avgs == [j \in DOMAIN p |-> DotF(row, p[j])]
    IN  [b \in 0..PermutationsOf(p, 2) |->
            FAbs(FSub(avgs[2 * b + 1], avgs[2 * b]))]

\* Square of t_stat (lines 304-317) for block b.
TStatBlock(row, p, b) ==
    LET tot0  == FInt(ColSum(p[2 * b]))
        tot1  == FInt(ColSum(p[2 * b + 1]))
        avg0  == FDiv(FInt(DotI(row, p[2 * b])), tot0)
        avg1  == FDiv(FInt(DotI(row, p[2 * b + 1])), tot1)
        avg20 == FDiv(FInt(DotI(Squares(row), p[2 * b])), tot0)
        avg21 == FDiv(FInt(DotI(Squares(row), p[2 * b + 1])), tot1)
        var0  == FSub(avg20, FMul(avg0, avg0))
        var1  == FSub(avg21, FMul(avg1, avg1))
        samp_var0 == FDiv(FMul(tot0, var0), FSub(tot0, One))
        samp_var1 == FDiv(FMul(tot1, var1), FSub(tot1, One))
        denom2 == FAdd(FDiv(samp_var1, tot1), FDiv(samp_var0, tot0))
        diff   == FAbs(FSub(avg1, avg0))
    IN  FDiv(FMul(diff, diff), denom2)

TStatRow(row, p) ==
    [b \in 0..PermutationsOf(p, 2) |-> TStatBlock(row, p, b)]

\* np.arange(1, ncols + 1) // num_cats: the block boundary one column early
BlockIndexVectorOffByOne(ncols, K) == [j \in 0..(ncols - 1) |-> (j + 1) \div K]

\* np.arange((permutations+1)*num_cats, dtype=np.int32) // num_cats
BlockIndexVector(ncols, K) == [j \in 0..(ncols - 1) |-> j \div K]

\* _init_categorical_perms(v, permutations=0): its single block; the shuffle
\* that follows the write changes nothing that is returned.
CategoricalPerms0(v) ==
    WriteCategoricalBlock(ZeroMatrix(Len0(v), NumCats(v), 0), 0, v, NumCats(v))

\* ss = _sums2 - np.multiply(_sums, _sums) / tot
SSColumn(s1, s2, n) == FSub(s2, FDiv(FMul(s1, s1), n))

\* ss[:, j] for one row
SSOfColumn(row, col) ==
    SSColumn(FInt(DotI(row, col)), FInt(DotI(Squares(row), col)),
             FInt(ColSum(col)))

\* np.dot(x, _sum_idx)[b] for a row vector x of floats
DotSumIdx(x, sumidxcol) ==
    SumF([j \in DOMAIN x |-> FMul(x[j], FInt(sumidxcol[j]))], Len0(x))

\* f_stat (lines 404-430).  n_samp is the number of rows of perms, which is
\* the length of the label vector the matrix was built from.
FStatRow(row, v, p) ==
    LET K      == NumCats(v)
        n_samp == Len0(v)
        S      == FInt(SumI(row, Len0(row)))
        SS     == FInt(SumI(Squares(row), Len0(row)))
        sstot  == FSub(SS, FDiv(FMul(S, S), FInt(n_samp)))
        sumidx == CategoricalPerms0(BlockIndexVector(Len0(p), K))
        tot    == [j \in DOMAIN p |-> FInt(ColSum(p[j]))]
        ss     == [j \in DOMAIN p |-> SSOfColumn(row, p[j])]
        dftrt  == FInt(K - 1)
    IN  [b \in DOMAIN sumidx |->
            LET sserr == DotSumIdx(ss, sumidx[b])
                sstrt == FSub(sstot, sserr)
                dferr == FSub(DotSumIdx(tot, sumidx[b]), FInt(K))
            IN  FDiv(FDiv(sstrt, dftrt), FDiv(sserr, dferr))]

\* The return of a vectorized engine: column 0 is the observed statistic;
\* indexing column 0 of a matrix without columns raises IndexError.
ReturnStatistics(ms, P) ==
    /\ stat' = ms
    /\ pc' = "done"
    /\ IF \A row \in DOMAIN ms : 0 \in DOMAIN ms[row]
       THEN /\ test_stats' = [row \in DOMAIN ms |-> ms[row][0]]
            /\ pvalues' = [row \in DOMAIN ms |-> PValue(TailCount(ms[row]), P)]
            /\ outcome' = "returned"
       ELSE /\ UNCHANGED <<test_stats, pvalues>>
            /\ outcome' = "IndexError"
    /\ UNCHANGED <<fn, mat, cats, dtype, permutations, copy_cats, perms, m,
                   r, i>>

\* _np_two_sample_mean_statistic(_mat, _perms)
MeanStatistic ==
    /\ pc = "built"
    /\ fn = "_np_mean_permutation_test"
    /\ ReturnStatistics([row \in DOMAIN mat |-> MeanStatRow(mat[row], perms)],
                        PermutationsOf(perms, 2))

\* _np_two_sample_t_statistic(_mat, _perms)
TStatistic ==
    /\ pc = "built"
    /\ fn = "_np_t_permutation_test"
    /\ ReturnStatistics([row \in DOMAIN mat |-> TStatRow(mat[row], perms)],
                        PermutationsOf(perms, 2))

\* _np_k_sample_f_statistic(mat, cats, perms)
FStatistic ==
    /\ pc = "built"
    /\ fn = "_np_k_sample_f_statistic"
    /\ ReturnStatistics(
          [row \in DOMAIN mat |-> FStatRow(mat[row], cats, perms)],
          PermutationsOf(perms, NumCats(cats)))

---------------------------------------------------------------------------
\* Naive reference engines.

\* values[cats == k]
GroupCount(v, k) == Cardinality({s \in DOMAIN v : v[s] = k})

GroupSum(row, v, k) ==
    SumI([s \in DOMAIN row |-> IF v[s] = k THEN row[s] ELSE 0], Len0(row))

\* values[cats == k].mean()
GroupMean(row, v, k) == FDiv(FInt(GroupSum(row, v, k)), FInt(GroupCount(v, k)))

\* Sum of the squared deviations of group k from c.
GroupSquaredDeviations(row, v, k, c) ==
    SumF([s \in DOMAIN row |->
             IF v[s] = k
             THEN FMul(FSub(FInt(row[s]), c), FSub(FInt(row[s]), c))
             ELSE Zero],
         Len0(row))

\* _mean_test(values, cats)
MeanTest(row, v) == FAbs(FSub(GroupMean(row, v, 0), GroupMean(row, v, 1)))

\* Square of _t_test(values, cats): ttest_ind(..., equal_var=False), the
\* Welch statistic with the unbiased variances of the two groups.
TTest(row, v) ==
    LET n0 == FInt(GroupCount(v, 0))
        n1 == FInt(GroupCount(v, 1))
        m0 == GroupMean(row, v, 0)
        m1 == GroupMean(row, v, 1)
        v0 == FDiv(GroupSquaredDeviations(row, v, 0, m0), FSub(n0, One))
        v1 == FDiv(GroupSquaredDeviations(row, v, 1, m1), FSub(n1, One))
        diff == FAbs(FSub(m0, m1))
    IN  FDiv(FMul(diff, diff), FAdd(FDiv(v0, n0), FDiv(v1, n1)))

\* _f_test(values, cats): f_oneway over the groups of set(cats), the ratio
\* of the between-group to the within-group mean square.
FTest(row, v) ==
    LET ks    == Range(v)
        K     == Cardinality(ks)
        N     == Len0(v)
        grand == FDiv(FInt(SumI(row, Len0(row))), FInt(N))
        kmax  == IF ks = {} THEN 0 ELSE (CHOOSE k \in ks : \A o \in ks : o <= k) + 1
        ssb   == SumF([k \in 0..(kmax - 1) |->
                         IF k \in ks
                         THEN LET d == FSub(GroupMean(row, v, k), grand)
                              IN  FMul(FInt(GroupCount(v, k)), FMul(d, d))
                         ELSE Zero],
                      kmax)
        ssw   == SumF([k \in 0..(kmax - 1) |->
                         IF k \in ks
                         THEN GroupSquaredDeviations(row, v, k,
                                                     GroupMean(row, v, k))
                         ELSE Zero],
                      kmax)
    IN  FAbs(FDiv(FDiv(ssb, FInt(K - 1)), FDiv(ssw, FInt(N - K))))

NaiveStat(f, row, v) ==
    CASE f = "_naive_mean_permutation_test" -> MeanTest(row, v)
      [] f = "_naive_t_permutation_test" -> TTest(row, v)
      [] f = "_naive_f_permutation_test" -> FTest(row, v)

\* rows, cols = mat.shape; pvalues = np.zeros(rows); test_stats = np.zeros(rows)
NaiveEnter ==
    /\ pc = "call"
    /\ fn \in NaiveEngines
    /\ pvalues' = [row \in DOMAIN mat |-> Zero]
    /\ test_stats' = [row \in DOMAIN mat |-> Zero]
    /\ stat' = [row \in DOMAIN mat |-> Empty]
    /\ r' = 0
    /\ pc' = "row"
    /\ UNCHANGED <<fn, mat, cats, dtype, permutations, copy_cats, perms, m, i,
                   outcome>>

\* test_stat = stat(values, cats); perm_stats = np.empty(permutations), which
\* raises ValueError for a negative size.  stat[r][0] is test_stat and
\* stat[r][i+1] is perm_stats[i].
NaiveObserved ==
    /\ pc = "row"
    /\ r < Len0(mat)
    /\ stat' = [stat EXCEPT ![r] = [b \in {0} |-> NaiveStat(fn, mat[r], cats)]]
    /\ i' = 0
    /\ IF permutations < 0
       THEN pc' = "done" /\ outcome' = "ValueError"
       ELSE pc' = "permute" /\ outcome' = outcome
    /\ UNCHANGED <<fn, mat, cats, dtype, permutations, copy_cats, perms, m, r,
                   test_stats, pvalues>>

\* perm_cats = np.random.permutation(cats); perm_stats[i] = stat(values, perm_cats)
NaivePermutation ==
    /\ pc = "permute"
    /\ i < permutations
    /\ \E perm_cats \in Shuffles(cats) :
          stat' = [stat EXCEPT ![r] =
                      [b \in 0..(i + 1) |->
                          IF b = i + 1 THEN NaiveStat(fn, mat[r], perm_cats)
                          ELSE stat[r][b]]]
    /\ i' = i + 1
    /\ UNCHANGED <<fn, mat, cats, dtype, permutations, pc, copy_cats, perms, m,
                   r, test_stats, pvalues, outcome>>

\* p_value = ((perm_stats >= test_stat).sum() + 1.) / (permutations + 1.)
NaivePValue ==
    /\ pc = "permute"
    /\ i = permutations
    /\ pvalues' = [pvalues EXCEPT ![r] = PValue(TailCount(stat[r]), permutations)]
    /\ test_stats' = [test_stats EXCEPT ![r] = stat[r][0]]
    /\ r' = r + 1
    /\ IF r + 1 < Len0(mat)
       THEN pc' = "row" /\ outcome' = outcome
       ELSE pc' = "done" /\ outcome' = "returned"
    /\ UNCHANGED <<fn, mat, cats, dtype, permutations, copy_cats, perms, m, i,
                   stat>>

---------------------------------------------------------------------------

Next ==
    \/ EnterBuilder
    \/ BuildBlock
    \/ BuildLastBlock
    \/ MeanStatistic
    \/ TStatistic
    \/ FStatistic
    \/ NaiveEnter
    \/ NaiveObserved
    \/ NaivePermutation
    \/ NaivePValue

Spec == Init /\ [][Next]_vars

---------------------------------------------------------------------------
\* Properties.

Done == pc = "done"

Returned == pc = "done" /\ outcome = "returned"

Engines == NpEngines \cup NaiveEngines

\* Number of blocks of perms written so far.
WrittenBlocks ==
    IF pc = "build" THEN m
    ELSE IF pc \in {"built", "done"} /\ permutations >= 0 THEN permutations + 1
    ELSE 0

RunsBuilder(b) == fn \in Builders \cup NpEngines /\ BuilderOf(fn) = b

\* Block b of the indicator matrix, as the label vector it encodes per column.
BlockColumn(b, k) == perms[NumCats(cats) * b + k]

\* C1: block 0 of the indicator matrix is the one-hot encoding of the
\* caller's labels (entry (s, k) is 1 if labels[s] = k and 0 otherwise), and
\* block 0 of the reciprocal matrix is computed from the same unshuffled
\* labels: label/sum(labels) and (1-label)/sum(1-labels), stored in the dtype
\* of the labels.
C1_Block0IsOriginalLabels ==
    WrittenBlocks >= 1 =>
        /\ RunsBuilder("_init_categorical_perms") =>
              \A s \in DOMAIN cats : \A k \in 0..(NumCats(cats) - 1) :
                 perms[k][s] = (IF cats[s] = k THEN 1 ELSE 0)
        /\ RunsBuilder("_init_reciprocal_perms") =>
              LET n1 == GroupCount(cats, 1)
                  n0 == GroupCount(cats, 0)
              IN  \A s \in DOMAIN cats :
                     IF dtype = "float"
                     THEN /\ perms[0][s] = Q(cats[s], n1)
                          /\ perms[1][s] = Q(1 - cats[s], n0)
                     ELSE /\ perms[0][s] =
                               FInt(IF cats[s] = 1 /\ n1 = 1 THEN 1 ELSE 0)
                          /\ perms[1][s] =
                               FInt(IF cats[s] = 0 /\ n0 = 1 THEN 1 ELSE 0)

\* A builder call has returned a matrix whose block 1 differs from block 0.
C1_Witness ==
    /\ Returned
    /\ fn = "_init_categorical_perms"
    /\ ValidLabels(cats)
    /\ permutations >= 1
    /\ \E k \in 0..(NumCats(cats) - 1) : BlockColumn(1, k) # BlockColumn(0, k)

\* C2: for valid labels, every written block of the indicator matrix encodes
\* a rearrangement of the label vector: each sample has exactly one 1 among
\* the K columns of the block, and the column sum of category k is the
\* number of samples labelled k in the caller's vector.
C2_BlocksArePermutations ==
    (RunsBuilder("_init_categorical_perms") /\ ValidLabels(cats)) =>
        \A b \in 0..(WrittenBlocks - 1) :
            /\ \A s \in DOMAIN cats :
                  /\ \A k \in 0..(NumCats(cats) - 1) :
                        BlockColumn(b, k)[s] \in {0, 1}
                  /\ Cardinality({k \in 0..(NumCats(cats) - 1) :
                                     BlockColumn(b, k)[s] = 1}) = 1
            /\ \A k \in 0..(NumCats(cats) - 1) :
                  ColSum(BlockColumn(b, k)) = GroupCount(cats, k)

\* Three categories, and a block after a shuffle that moved a label.
C2_Witness ==
    /\ Returned
    /\ fn = "_init_categorical_perms"
    /\ ValidLabels(cats)
    /\ NumCats(cats) = 3
    /\ permutations >= 2
    /\ BlockColumn(2, 0) # BlockColumn(1, 0)
    /\ BlockColumn(1, 0) # BlockColumn(0, 0)

\* C3: every p-value an engine returns lies in (0, 1].
C3_PValueBounds ==
    (Returned /\ fn \in Engines) =>
        \A row \in DOMAIN mat :
            /\ pvalues[row].d > 0
            /\ pvalues[row].n > 0
            /\ pvalues[row].n <= pvalues[row].d

\* The observed statistic exceeds every permuted statistic.
C3_Witness ==
    /\ Returned
    /\ fn \in NpEngines
    /\ permutations >= 1
    /\ IsFinite(stat[0][0])
    /\ \A b \in 1..permutations :
          IsFinite(stat[0][b]) /\ ~FGeq(stat[0][b], stat[0][0])

\* C4: the p-value of a feature is (count + 1) / (P + 1), count the number
\* of permuted blocks 1..P whose statistic is >= the observed one (ties
\* counted); it is 1 / (P + 1) when every permuted statistic is smaller.
C4_PValueFormula ==
    (Returned /\ fn \in Engines) =>
        \A row \in DOMAIN mat :
            LET count == Cardinality({b \in 1..permutations :
                                         FGeq(stat[row][b], stat[row][0])})
                ties  == {b \in 1..permutations : stat[row][b] = stat[row][0]}
            IN  /\ test_stats[row] = stat[row][0]
                /\ pvalues[row].d > 0
                /\ pvalues[row].n * (permutations + 1)
                      = pvalues[row].d * (count + 1)
                /\ count = 0 => pvalues[row] = Q(1, permutations + 1)
                /\ (ties # {} /\ ~IsNan(stat[row][0]))
                      => pvalues[row].n * (permutations + 1)
                            >= pvalues[row].d * (Cardinality(ties) + 1)

\* A permuted statistic ties the observed one and another one is smaller.
C4_Witness ==
    /\ Returned
    /\ fn \in Engines
    /\ permutations >= 2
    /\ IsFinite(stat[0][0])
    /\ \E b \in 1..permutations : stat[0][b] = stat[0][0]
    /\ \E b \in 1..permutations : ~FGeq(stat[0][b], stat[0][0])

\* The observed statistic is undefined on the caller's labels: for Welch t a
\* group of at most one sample or a zero denominator, for F a zero
\* within-group sum of squares.
ObservedUndefined(row) ==
    IF fn = "_np_t_permutation_test"
    THEN \/ GroupCount(cats, 0) <= 1
         \/ GroupCount(cats, 1) <= 1
         \/ /\ GroupSquaredDeviations(mat[row], cats, 0,
                                      GroupMean(mat[row], cats, 0)) = Zero
            /\ GroupSquaredDeviations(mat[row], cats, 1,
                                      GroupMean(mat[row], cats, 1)) = Zero
    ELSE \A k \in Range(cats) :
            GroupSquaredDeviations(mat[row], cats, k,
                                   GroupMean(mat[row], cats, k)) = Zero

\* C5: when block 0 yields an undefined statistic, the call of the Welch-t
\* or the F engine fails with DegenerateBlockError and returns nothing.
C5_DegenerateObservedRaises ==
    (/\ Done
     /\ fn \in {"_np_t_permutation_test", "_np_k_sample_f_statistic"}
     /\ permutations >= 0
     /\ \E row \in DOMAIN mat : ObservedUndefined(row))
        => (outcome = "DegenerateBlockError" /\ pvalues = Empty)

\* The arguments of the call are invalid: no label, fewer than two distinct
\* categories, a label outside [0, K), or a negative permutation count.
InvalidInput ==
    \/ Len0(cats) = 0
    \/ ~ValidLabels(cats)
    \/ permutations < 0

\* C6: every invalid input is rejected with InvalidInputError and nothing
\* is produced.
C6_InvalidInputRejected ==
    (Done /\ InvalidInput) => outcome = "InvalidInputError"

\* C7: with integer labels 0/1 (both categories present), the observed
\* statistic of the vectorized mean-difference engine is |mean of category 1 -
\* mean of category 0| of the true labels, as the naive engine computes it.
C7_MeanStatisticWithIntegerLabels ==
    (Returned /\ fn = "_np_mean_permutation_test" /\ dtype = "int") =>
        \A row \in DOMAIN mat : test_stats[row] = MeanTest(mat[row], cats)

\* The F statistic of block b from the columns of the block alone.
BlockF(row, b) ==
    LET K     == NumCats(cats)
        n     == Len0(cats)
        sumx  == SumI(row, Len0(row))
        sumx2 == SumI(Squares(row), Len0(row))
        sstot == FSub(FInt(sumx2), Q(sumx * sumx, n))
        sserr == SumF([k \in 0..(K - 1) |->
                         LET col == BlockColumn(b, k)
                             Sk  == DotI(row, col)
                             S2k == DotI(Squares(row), col)
                             nk  == ColSum(col)
                         IN  FSub(FInt(S2k), Q(Sk * Sk, nk))],
                      K)
    IN  FDiv(FDiv(FSub(sstot, sserr), FInt(K - 1)),
             FDiv(sserr, FInt(n - K)))

\* C8: the F engine computes, for every block b,
\* F[b] = ((sstot - sserr[b]) / (K-1)) / (sserr[b] / (n - K)), sserr[b] summed
\* over exactly the K columns of block b, and F[0] is the one-way ANOVA F of
\* the true grouping.
C8_FStatisticFormula ==
    (Returned /\ fn = "_np_k_sample_f_statistic") =>
        \A row \in DOMAIN mat :
            /\ \A b \in 0..permutations : stat[row][b] = BlockF(mat[row], b)
            /\ test_stats[row] = FTest(mat[row], cats)

\* Three categories, a finite non-zero observed F and a different permuted F.
C8_Witness ==
    /\ Returned
    /\ fn = "_np_k_sample_f_statistic"
    /\ NumCats(cats) = 3
    /\ permutations >= 1
    /\ IsFinite(stat[0][0])
    /\ stat[0][0].n > 0
    /\ stat[0][1] # stat[0][0]

\* C9: no step of a call changes the caller's label vector or feature matrix.
C9_InputsUnchanged == [][cats' = cats /\ mat' = mat]_vars

\* An engine has returned after shuffles that rearranged the working copy.
C9_Witness ==
    /\ Returned
    /\ fn = "_np_t_permutation_test"
    /\ permutations >= 1
    /\ perms[2] # perms[0]

\* C10: with P = 0 every engine returns the p-value 1 for every feature.
C10_NoPermutationsGivesOne ==
    (Returned /\ fn \in Engines /\ permutations = 0) =>
        \A row \in DOMAIN mat : pvalues[row] = One

\* P = 0 and a finite, non-zero observed statistic.
C10_Witness ==
    /\ Returned
    /\ fn \in Engines
    /\ permutations = 0
    /\ IsFinite(test_stats[0])
    /\ test_stats[0].n > 0

=============================================================================
